---------------------------- MODULE Spec2Model ----------------------------
(***************************************************************************)
(* Model of the LanguageLearner schedule generator:                        *)
(*   src/language_learner.py  (v1.8 workflow: cache, compiler, validator,  *)
(*                             day driver)                                 *)
(*   src/run_tests.py         (v3.0 workflow: generate_interleaved_schedule*)
(*                             and the template loop)                      *)
(* Durations are whole milliseconds.  A file is "absent", "empty" (zero    *)
(* bytes) or holds content.                                                *)
(***************************************************************************)
EXTENDS Integers, Sequences, FiniteSets, TLC

VARIABLES
    fnIn,           \* arguments of the pure function under check
    fnOut,          \* its result
    fnPc,           \* "ready" before the call, "done" after it
    srcFile,        \* sentence_pairs.csv: absent, malformed, or its rows
    dayDirs,        \* Days/day_<n>: whether the directory exists, and its files
    ttsCache,       \* tts_cache: path -> file
    pc,             \* position of main_workflow: "idle" between runs
    runs,           \* number of runs of main_workflow started
    runMode,        \* (use_real_tts_mode, use_real_concat_mode) of the run
    isInitialRun,   \* is_initial_run of the run
    loaded,         \* master_data of the run, as loaded
    queue,          \* days_to_process still ahead, the current day first
    processed,      \* days handed to process_day in the run, in order
    apiCalls,       \* synthesis calls made so far (real or mock)
    faults,         \* failures of a collaborator injected so far
    edits,          \* what the user changed on disk since the last run ended
    atStart,        \* the disk as the run found it
    cacheLog,       \* the requests of the last pre-caching call
    lastGen,        \* the last call of generate_audio_from_template
    lastVerify      \* the last call of verify_audio_duration_integrity

fnVars == <<fnIn, fnOut, fnPc>>

wfVars == <<srcFile, dayDirs, ttsCache, pc, runs, runMode, isInitialRun, loaded,
            queue, processed, apiCalls, faults, edits, atStart, cacheLog,
            lastGen, lastVerify>>

vars == <<fnVars, wfVars>>

(***************************************************************************)
(* Bounds of the model.                                                    *)
(***************************************************************************)
MaxItems == 5        \* longest item list handed to the interleaver
MaxR == 8            \* largest repetition count handed to the interleaver
MaxMaster == 3       \* longest master list handed to the scheduler
MaxStudyDay == 4     \* largest StudyDay of a master row handed to the scheduler
MaxDay == 17         \* largest max_day handed to the scheduler
MaxRuns == 2         \* runs of main_workflow in one behaviour
MaxFaults == 1       \* collaborator failures in one behaviour
MaxEdits == 1        \* edits of the disk by the user in one behaviour
WfMaxMaster == 2     \* longest master list of the workflow
WfMaxStudyDay == 2   \* largest StudyDay in a master list of the workflow
MaxTrackSec == 3     \* longest expected duration handed to the validator, seconds

(***************************************************************************)
(* The specifications of a single function leave the workflow's state      *)
(* parked, and the workflow leaves the function variables parked.          *)
(***************************************************************************)
WfParked ==
    /\ srcFile = <<>> /\ dayDirs = <<>> /\ ttsCache = <<>> /\ pc = "off" /\ runs = 0
    /\ runMode = <<>> /\ isInitialRun = FALSE /\ loaded = <<>>
    /\ queue = <<>> /\ processed = <<>> /\ apiCalls = 0 /\ faults = 0
    /\ edits = <<>> /\ atStart = <<>> /\ cacheLog = {} /\ lastGen = <<>>
    /\ lastVerify = <<>>

FnParked == fnIn = <<>> /\ fnOut = <<>> /\ fnPc = "off"

(***************************************************************************)
(* Generic helpers.                                                        *)
(***************************************************************************)
Range(s) == {s[i] : i \in 1..Len(s)}

RECURSIVE SumFirst(_, _)
SumFirst(s, n) == IF n = 0 THEN 0 ELSE SumFirst(s, n - 1) + s[n]

Count(s, x) == Cardinality({i \in 1..Len(s) : s[i] = x})

Abs(x) == IF x < 0 THEN -x ELSE x

\* All sequences over S of length 0..n.
SeqsUpTo(S, n) == UNION {[1..k -> S] : k \in 0..n}

\* Those of them without repeats.
InjSeqs(S, n) ==
    {t \in SeqsUpTo(S, n) : \A i, j \in 1..Len(t) : i # j => t[i] # t[j]}

(***************************************************************************)
(* Micro interleaving (v3.0 workflow).                                     *)
(***************************************************************************)
\* Config.MICRO_SPACING_INTERVALS
MICRO_SPACING_INTERVALS == <<0, 3, 7, 14, 28>>

\* `intervals` of the stand-alone interleaving scripts
SCRIPT_INTERVALS == <<0, 3, 7, 14, 30, 60, 120, 240>>

\* use_intervals: the first `repetitions` offsets, or all of them when
\* more repetitions are asked for than offsets exist.
UseIntervals(repetitions, intervals) ==
    IF repetitions > Len(intervals)
    THEN intervals
    ELSE SubSeq(intervals, 1, repetitions)

\* Slots that add each offset to the position instead of accumulating.
Indices_NotCumulative(item_position, use_intervals) ==
    [i \in 1..Len(use_intervals) |-> item_position + use_intervals[i]]

\* indices of the item at 1-based position p: p + s0, (p + s0) + s1, ...
Indices(item_position, use_intervals) ==
    [i \in 1..Len(use_intervals) |->
        item_position + SumFirst(use_intervals, i)]

\* arrays[slot]: items are appended position by position, index by index.
RECURSIVE SlotAppend(_, _, _, _, _)
SlotAppend(items, use_intervals, slot, p, i) ==
    IF p > Len(items) THEN <<>>
    ELSE IF i > Len(use_intervals)
         THEN SlotAppend(items, use_intervals, slot, p + 1, 1)
         ELSE (IF Indices(p, use_intervals)[i] = slot THEN <<items[p]>> ELSE <<>>)
              \o SlotAppend(items, use_intervals, slot, p, i + 1)

Arrays(items, use_intervals, slot) == SlotAppend(items, use_intervals, slot, 1, 1)

SlotKeys(items, use_intervals) ==
    {Indices(p, use_intervals)[i] : p \in 1..Len(items), i \in 1..Len(use_intervals)}

\* for key in sorted(arrays): concatenated.extend(arrays[key])
RECURSIVE ConcatSorted(_, _, _)
ConcatSorted(items, use_intervals, keys) ==
    IF keys = {} THEN <<>>
    ELSE LET k == CHOOSE x \in keys : \A y \in keys : x <= y
         IN  Arrays(items, use_intervals, k)
             \o ConcatSorted(items, use_intervals, keys \ {k})

\* A schedule that repeats each item in place instead of interleaving.
generate_interleaved_schedule_Clustered(items, repetitions, intervals) ==
    IF items = <<>> \/ repetitions <= 0 THEN <<>>
    ELSE LET k == Len(UseIntervals(repetitions, intervals))
         IN  [n \in 1..(Len(items) * k) |-> items[((n - 1) \div k) + 1]]

\* A schedule that takes a repetition count below one for one.
generate_interleaved_schedule_AtLeastOnce(items, repetitions, intervals) ==
    IF items = <<>> THEN <<>>
    ELSE LET use_intervals ==
                 UseIntervals(IF repetitions <= 0 THEN 1 ELSE repetitions, intervals)
         IN  ConcatSorted(items, use_intervals, SlotKeys(items, use_intervals))

generate_interleaved_schedule(items, repetitions, intervals) ==
    IF items = <<>> \/ repetitions <= 0 THEN <<>>
    ELSE LET use_intervals == UseIntervals(repetitions, intervals)
         IN  ConcatSorted(items, use_intervals, SlotKeys(items, use_intervals))

(***************************************************************************)
(* Specification of the interleaver alone: the arguments are drawn in      *)
(* Init, the one action calls the function.                                *)
(***************************************************************************)
ItemIds == 1..MaxItems

InterleaveInputs ==
    [items : InjSeqs(ItemIds, MaxItems),
     repetitions : (-1)..MaxR,
     intervals : {MICRO_SPACING_INTERVALS, SCRIPT_INTERVALS}]

InitInterleave ==
    /\ fnIn \in InterleaveInputs
    /\ fnOut = <<>>
    /\ fnPc = "ready"
    /\ WfParked

CallInterleave ==
    /\ fnPc = "ready"
    /\ fnOut' = generate_interleaved_schedule(fnIn.items, fnIn.repetitions,
                                              fnIn.intervals)
    /\ fnPc' = "done"
    /\ UNCHANGED <<fnIn, wfVars>>

NextInterleave == CallInterleave

SpecInterleave == InitInterleave /\ [][NextInterleave]_vars

\* C1: with the configured micro spacing intervals, every item of a
\* non-empty list occurs exactly R times in the output, for R in 1..8.
C1_EachItemExactlyR ==
    (/\ fnPc = "done"
     /\ fnIn.intervals = MICRO_SPACING_INTERVALS
     /\ fnIn.items # <<>>
     /\ fnIn.repetitions \in 1..8)
    => \A p \in 1..Len(fnIn.items) :
          Count(fnOut, fnIn.items[p]) = fnIn.repetitions

\* The placements the slot rule asks for: <<slot, p>> for the item at
\* position p and each of the first R offsets (all of them when fewer than
\* R are configured), the slot being p plus the sum of the offsets so far.
Placements(x) ==
    LET k == IF x.repetitions > Len(x.intervals) THEN Len(x.intervals)
             ELSE x.repetitions
    IN  {<<p + SumFirst(x.intervals, i), p>> : p \in 1..Len(x.items), i \in 1..k}

\* Position of a placement when slots are listed in ascending order and
\* the items of one slot in their original order.
RankOf(pl, P) ==
    1 + Cardinality({q \in P : q[1] < pl[1] \/ (q[1] = pl[1] /\ q[2] < pl[2])})

\* C14: the item at position p is placed into the slots p+s0, (p+s0)+s1,
\* ..., the output lists the slots in ascending order and the items of a
\* slot in their original order; 5 items with R = 2 and offsets 0, 3 give
\* item 1 in slots 1 and 4, item 5 in slots 5 and 8, and 10 entries.
C14_SlotsAscendingStable ==
    (fnPc = "done" /\ fnIn.items # <<>> /\ fnIn.repetitions >= 1)
    => LET P == Placements(fnIn)
       IN  /\ Len(fnOut) = Cardinality(P)
           /\ \A pl \in P : fnOut[RankOf(pl, P)] = fnIn.items[pl[2]]
           /\ (Len(fnIn.items) = 5 /\ fnIn.repetitions = 2)
                => /\ {pl[1] : pl \in {q \in P : q[2] = 1}} = {1, 4}
                   /\ {pl[1] : pl \in {q \in P : q[2] = 5}} = {5, 8}
                   /\ Len(fnOut) = 10
                   /\ fnOut = [n \in 1..10 |->
                                 fnIn.items[<<1, 2, 3, 1, 4, 2, 5, 3, 4, 5>>[n]]]

\* Witness of C14: three repetitions of four items, where two items share
\* slot 4 and the earlier item comes first.
C14_Witness ==
    /\ fnPc = "done" /\ fnIn.items = <<2, 1, 4, 3>> /\ fnIn.repetitions = 3
    /\ fnIn.intervals = MICRO_SPACING_INTERVALS
    /\ fnOut[4] = 2 /\ fnOut[5] = 3
    /\ Len(fnOut) = 12

\* No two neighbouring entries of the output are the same item.
NoAdjacentRepeat(out) == \A n \in 1..(Len(out) - 1) : out[n] # out[n + 1]

\* C15: with the configured micro spacing intervals and R >= 2, no item
\* occupies two adjacent positions of the output, for every item list.
C15_NoAdjacentRepeat ==
    (/\ fnPc = "done" /\ fnIn.intervals = MICRO_SPACING_INTERVALS
     /\ fnIn.repetitions >= 2 /\ fnIn.items # <<>>)
    => NoAdjacentRepeat(fnOut)

\* C15 (amended): with the configured micro spacing intervals and R >= 2,
\* no item occupies two adjacent positions of the output, for every list
\* of at least two items.
C15_NoAdjacentRepeatFromTwoItems ==
    (/\ fnPc = "done" /\ fnIn.intervals = MICRO_SPACING_INTERVALS
     /\ fnIn.repetitions >= 2 /\ Len(fnIn.items) >= 2)
    => NoAdjacentRepeat(fnOut)

\* Witness of C15: two items, five repetitions, ten entries that alternate.
C15_Witness ==
    /\ fnPc = "done" /\ fnIn.intervals = MICRO_SPACING_INTERVALS
    /\ fnIn.repetitions = 5 /\ fnIn.items = <<1, 2>>
    /\ fnOut = <<1, 2, 1, 2, 1, 2, 1, 2, 1, 2>>

\* C16: the interleaver returns the empty sequence whenever the item list
\* is empty or R <= 0, so a template whose source items are empty gets an
\* empty sequence; there is no error outcome.
C16_EmptyInEmptyOut ==
    (fnPc = "done" /\ (fnIn.items = <<>> \/ fnIn.repetitions <= 0))
    => fnOut = <<>>

\* Witness of C16: three items with R = 0, and the result is empty.
C16_Witness ==
    /\ fnPc = "done" /\ Len(fnIn.items) = 3 /\ fnIn.repetitions = 0
    /\ fnOut = <<>>

(***************************************************************************)
(* Scheduler (language_learner.py).                                        *)
(***************************************************************************)
\* ScheduleType
ScheduleType_NEW == "micro_new"
ScheduleType_REVIEW == "macro_review"

\* Config
CONTENT_KEYS == <<"W2", "W1", "L1", "L2">>
MICRO_REPETITIONS_COUNT == 3
REVIEW_REPETITION_COUNT == 0
MACRO_REPETITION_INTERVALS == <<1, 3, 7, 14, 30, 16, 120, 240>>

\* One row of the master CSV after load_and_validate_source_data.
MasterRow(w2, w1, l1, l2, day) ==
    [W2 |-> w2, W1 |-> w1, L1 |-> l1, L2 |-> l2, StudyDay |-> day]

ScheduleItem(item, day, type, rep) ==
    [W2 |-> item.W2, W1 |-> item.W1, L1 |-> item.L1, L2 |-> item.L2,
     StudyDay |-> day, type |-> type, repetition |-> rep]

\* A review rule that looks at the first macro interval only.
IsDue_FirstIntervalOnly(original_study_day, current_day) ==
    original_study_day + MACRO_REPETITION_INTERVALS[1] = current_day

\* any(original_study_day + interval == current_day for interval in ...)
IsDue(original_study_day, current_day) ==
    \E n \in 1..Len(MACRO_REPETITION_INTERVALS) :
        original_study_day + MACRO_REPETITION_INTERVALS[n] = current_day

\* Review entries stamped with the day they are reviewed on.
DueReviewItems_StampedToday(history, current_day) ==
    LET due == SelectSeq(history, LAMBDA item : IsDue(item.StudyDay, current_day))
    IN  [n \in 1..Len(due) |->
            ScheduleItem(due[n], current_day, ScheduleType_REVIEW,
                         REVIEW_REPETITION_COUNT)]

\* due_review_items of one day: one entry per history item that is due,
\* in the order of history.
DueReviewItems(history, current_day) ==
    LET due == SelectSeq(history, LAMBDA item : IsDue(item.StudyDay, current_day))
    IN  [n \in 1..Len(due) |->
            ScheduleItem(due[n], due[n].StudyDay, ScheduleType_REVIEW,
                         REVIEW_REPETITION_COUNT)]

\* A micro schedule with one entry per new item.
MicroRepetitionSchedule_Once(master_data, current_day) ==
    LET new_items == SelectSeq(master_data, LAMBDA item : item.StudyDay = current_day)
    IN  [n \in 1..Len(new_items) |->
            ScheduleItem(new_items[n], current_day, ScheduleType_NEW, 1)]

\* micro_repetition_schedule of one day: for each new item in master
\* order, for rep in 1..MICRO_REPETITIONS_COUNT, one entry.
MicroRepetitionSchedule(master_data, current_day) ==
    LET new_items == SelectSeq(master_data, LAMBDA item : item.StudyDay = current_day)
    IN  [n \in 1..(Len(new_items) * MICRO_REPETITIONS_COUNT) |->
            ScheduleItem(new_items[((n - 1) \div MICRO_REPETITIONS_COUNT) + 1],
                         current_day, ScheduleType_NEW,
                         ((n - 1) % MICRO_REPETITIONS_COUNT) + 1)]

\* schedules: day -> entries, for the days 1..max_day only.
generate_full_repetition_schedule(master_data, max_day) ==
    [current_day \in 1..max_day |->
        DueReviewItems(master_data, current_day)
        \o MicroRepetitionSchedule(master_data, current_day)]

\* Config.MACRO_REPETITION_INTERVALS of the v3.0 workflow.
MACRO_REPETITION_INTERVALS_V3 == <<1, 3, 7, 14, 30, 60, 120, 240>>

\* any(original_study_day + interval == current_day ...) of the v3.0 workflow.
IsDue_V3(original_study_day, current_day) ==
    \E n \in 1..Len(MACRO_REPETITION_INTERVALS_V3) :
        original_study_day + MACRO_REPETITION_INTERVALS_V3[n] = current_day

\* The review entries of one day in the v3.0 workflow: repetition 0.
ReviewItems_V3(history, current_day) ==
    LET due == SelectSeq(history, LAMBDA item : IsDue_V3(item.StudyDay, current_day))
    IN  [n \in 1..Len(due) |->
            ScheduleItem(due[n], due[n].StudyDay, ScheduleType_REVIEW, 0)]

\* The new entries of one day in the v3.0 workflow: each new item once,
\* repetition 0.
NewItems_V3(master_data, current_day) ==
    LET new_items_raw == SelectSeq(master_data,
                                   LAMBDA item : item.StudyDay = current_day)
    IN  [n \in 1..Len(new_items_raw) |->
            ScheduleItem(new_items_raw[n], current_day, ScheduleType_NEW, 0)]

\* generate_full_repetition_schedule of the v3.0 workflow.
generate_full_repetition_schedule_V3(master_data, max_day) ==
    [current_day \in 1..max_day |->
        ReviewItems_V3(master_data, current_day)
        \o NewItems_V3(master_data, current_day)]

(***************************************************************************)
(* Specification of the scheduler alone.                                   *)
(***************************************************************************)
\* Two rows that share the base word "house"; the second has no L1 text.
RowA(day) == MasterRow("hus", "house", "Huset er stort.", "The house is big.", day)
RowB(day) == MasterRow("hjem", "house", "", "Home is here.", day)

SchedulerPool == {RowA(d) : d \in 1..MaxStudyDay} \cup {RowB(d) : d \in 1..MaxStudyDay}

SchedulerInputs ==
    [master_data : InjSeqs(SchedulerPool, MaxMaster), max_day : 0..MaxDay]

InitSchedule ==
    /\ fnIn \in SchedulerInputs
    /\ fnOut = <<>>
    /\ fnPc = "ready"
    /\ WfParked

CallSchedule ==
    /\ fnPc = "ready"
    /\ fnOut' = generate_full_repetition_schedule(fnIn.master_data, fnIn.max_day)
    /\ fnPc' = "done"
    /\ UNCHANGED <<fnIn, wfVars>>

NextSchedule == CallSchedule

SpecSchedule == InitSchedule /\ [][NextSchedule]_vars

\* The content of a master row or of a schedule entry.
ContentOf(e) == <<e.W2, e.W1, e.L1, e.L2>>

ReviewEntries(schedule) == SelectSeq(schedule, LAMBDA e : e.type = ScheduleType_REVIEW)

\* On every scheduled day D the review entries are exactly the master rows
\* with StudyDay + k = D for some macro interval k, in master order, each
\* row once.
C2_ReviewSelectionExact ==
    fnPc = "done" =>
        \A D \in 1..fnIn.max_day :
            LET due == SelectSeq(fnIn.master_data,
                          LAMBDA r : \E k \in Range(MACRO_REPETITION_INTERVALS) :
                                        r.StudyDay + k = D)
                rev == ReviewEntries(fnOut[D])
            IN  /\ Len(rev) = Len(due)
                /\ \A n \in 1..Len(due) :
                      /\ ContentOf(rev[n]) = ContentOf(due[n])
                      /\ rev[n].StudyDay = due[n].StudyDay

\* Two rows of origin day 1 are both reviewed on day 2 (1+1) and on day 4
\* (1+3), and day 3 has no review.
C2_Example ==
    (fnPc = "done" /\ fnIn.max_day >= 4
        /\ fnIn.master_data = <<RowA(1), RowB(1)>>)
    => /\ Len(ReviewEntries(fnOut[2])) = 2
       /\ Len(ReviewEntries(fnOut[4])) = 2
       /\ ReviewEntries(fnOut[3]) = <<>>

\* C2: for every master list and every day D, the review entries of day D
\* are exactly the rows with StudyDay + k = D for some k of
\* MACRO_REPETITION_INTERVALS, each once; rows of origin day 1 are reviewed
\* on days 2 and 4 and not on day 3.
C2_Theorem == C2_ReviewSelectionExact /\ C2_Example

\* Witness of C2: a day on which one row is due and another is not, and a
\* day reached through the second macro interval.
C2_Witness ==
    /\ fnPc = "done"
    /\ fnIn.master_data = <<RowA(1), RowB(1), RowA(2)>>
    /\ fnIn.max_day >= 4
    /\ Len(ReviewEntries(fnOut[4])) = 2
    /\ Len(ReviewEntries(fnOut[3])) = 1

NewEntries(schedule) == SelectSeq(schedule, LAMBDA e : e.type = ScheduleType_NEW)

\* C17: for every scheduled day D the NEW entries are the master rows with
\* StudyDay = D in master order, each row as MICRO_REPETITIONS_COUNT
\* consecutive entries with repetition 1..MICRO_REPETITIONS_COUNT.
C17_NewSelectionExact ==
    fnPc = "done" =>
        \A D \in 1..fnIn.max_day :
            LET rows == SelectSeq(fnIn.master_data, LAMBDA r : r.StudyDay = D)
                new == NewEntries(fnOut[D])
                first == Len(fnOut[D]) - Len(new)
            IN  /\ Len(new) = Len(rows) * MICRO_REPETITIONS_COUNT
                /\ \A n \in 1..Len(new) : fnOut[D][first + n] = new[n]
                /\ \A n \in 1..Len(rows) :
                      \A r \in 1..MICRO_REPETITIONS_COUNT :
                         LET e == new[(n - 1) * MICRO_REPETITIONS_COUNT + r]
                         IN  /\ ContentOf(e) = ContentOf(rows[n])
                             /\ e.StudyDay = D
                             /\ e.repetition = r

\* Witness of C17: day 2 has two new rows after a review, six NEW entries.
C17_Witness ==
    /\ fnPc = "done"
    /\ fnIn.master_data = <<RowB(2), RowA(1), RowA(2)>>
    /\ fnIn.max_day >= 2
    /\ Len(NewEntries(fnOut[2])) = 6
    /\ Len(fnOut[2]) = 7
    /\ ContentOf(fnOut[2][2]) = ContentOf(RowB(2))
    /\ fnOut[2][7].repetition = 3

\* The entry comes from a master row with this content and StudyDay.
FromMasterRow(e) ==
    \E i \in 1..Len(fnIn.master_data) :
        /\ ContentOf(fnIn.master_data[i]) = ContentOf(e)
        /\ fnIn.master_data[i].StudyDay = e.StudyDay

\* C34: in the schedule of every day D a REVIEW entry carries the StudyDay
\* of its master row, which is before D, a NEW entry has StudyDay D, and no
\* master row has a NEW and a REVIEW entry on the same day.
C34_OriginDayKept ==
    fnPc = "done" =>
        \A D \in 1..fnIn.max_day :
            /\ \A n \in 1..Len(fnOut[D]) :
                  LET e == fnOut[D][n]
                  IN  /\ FromMasterRow(e)
                      /\ e.type = ScheduleType_REVIEW => e.StudyDay < D
                      /\ e.type = ScheduleType_NEW => e.StudyDay = D
                      /\ e.type \in {ScheduleType_REVIEW, ScheduleType_NEW}
            /\ \A n, m \in 1..Len(fnOut[D]) :
                  (ContentOf(fnOut[D][n]) = ContentOf(fnOut[D][m])
                   /\ fnOut[D][n].StudyDay = fnOut[D][m].StudyDay)
                      => fnOut[D][n].type = fnOut[D][m].type

\* Witness of C34: on day 2 the same content is reviewed from the row of
\* day 1 and is new from the row of day 2.
C34_Witness ==
    /\ fnPc = "done"
    /\ fnIn.master_data = <<RowA(1), RowA(2)>>
    /\ fnIn.max_day = 2
    /\ fnOut[2][1].type = ScheduleType_REVIEW /\ fnOut[2][1].StudyDay = 1
    /\ fnOut[2][2].type = ScheduleType_NEW /\ fnOut[2][2].StudyDay = 2
    /\ ContentOf(fnOut[2][1]) = ContentOf(fnOut[2][2])

\* The items a day's schedule selects for review: content and origin day.
ReviewSelection(schedule) ==
    {[content |-> ContentOf(schedule[n]), StudyDay |-> schedule[n].StudyDay] :
        n \in {m \in 1..Len(schedule) : schedule[m].type = ScheduleType_REVIEW}}

\* C37: for every master list and every day D, the set of items selected
\* for REVIEW by generate_full_repetition_schedule of language_learner.py
\* equals the set selected by generate_full_repetition_schedule of the v3.0
\* workflow.
C37_SameReviewSelectionAsV3 ==
    fnPc = "done" =>
        \A D \in 1..fnIn.max_day :
            ReviewSelection(fnOut[D])
                = ReviewSelection(generate_full_repetition_schedule_V3(
                                      fnIn.master_data, fnIn.max_day)[D])

(***************************************************************************)
(* Files.  A file is absent, empty (zero bytes), an audio payload of `ms`  *)
(* milliseconds, an undecodable non-empty payload ("corrupt"), or a CSV    *)
(* with `rows`.                                                            *)
(***************************************************************************)
File(kind, ms, rows) == [kind |-> kind, ms |-> ms, rows |-> rows]
Absent == File("absent", 0, <<>>)
Empty == File("empty", 0, <<>>)
Corrupt == File("corrupt", 0, <<>>)
Audio(ms) == File("audio", ms, <<>>)
Csv(rows) == File("csv", 0, rows)

\* Path.exists()
Exists(f) == f.kind # "absent"

\* Path.stat().st_size
NonEmpty(f) == f.kind \in {"audio", "corrupt"} \/ (f.kind = "csv" /\ f.rows # <<>>)

\* Path.touch(exist_ok=True): creates an empty file, keeps an existing one.
Touch(f) == IF Exists(f) THEN f ELSE Empty

(***************************************************************************)
(* Configuration (class Config).                                           *)
(***************************************************************************)
USE_REAL_TTS == TRUE

REVIEW_MANIFEST_NAME == "review_manifest.csv"
WORKOUT_MANIFEST_NAME == "workout_manifest.csv"
REVIEW_FORWARD_AUDIO_NAME == "review_forward.mp3"
REVIEW_REVERSE_AUDIO_NAME == "review_reverse.mp3"
WORKOUT_AUDIO_NAME == "workout.mp3"

TARGET_LANG_CODE_FULL == "da-DK"
BASE_LANG_CODE_FULL == "en-US"
TARGET_LANG_CODE_SHORT == "da"
BASE_LANG_CODE_SHORT == "en"

LANGUAGE_ROLE_MAP ==
    [W2 |-> "TARGET", W1 |-> "BASE", L2 |-> "TARGET", L1 |-> "BASE"]

LANG_CODE_RESOLVER ==
    [TARGET |-> TARGET_LANG_CODE_FULL, BASE |-> BASE_LANG_CODE_FULL]

\* PAUSE_DURATIONS, int(pause_sec * 1000)
PAUSE_DURATIONS == [SP |-> 3000, W2 |-> 250, W1 |-> 250, L2 |-> 500, L1 |-> 500]

\* AUDIO_TEMPLATES, split at TEMPLATE_DELIMITER
AUDIO_TEMPLATES ==
    [workout |-> <<"SP", "W2", "W1", "L2", "L1">>,
     review_forward |-> <<"SP", "W2", "W1", "L1", "L2">>,
     review_reverse |-> <<"SP", "W2", "W1", "L2", "L1">>]

AUDIO_FILE_MAP ==
    [workout |-> WORKOUT_AUDIO_NAME,
     review_forward |-> REVIEW_FORWARD_AUDIO_NAME,
     review_reverse |-> REVIEW_REVERSE_AUDIO_NAME]

SEGMENT_ACTIONS ==
    [W2 |-> "CONTENT", W1 |-> "CONTENT", L1 |-> "CONTENT", L2 |-> "CONTENT",
     SP |-> "EXPLICIT_PAUSE"]

MOCK_CONTENT_DURATION_SEC == 1000
DURATION_TOLERANCE_SEC == 150

\* AudioSegment.silent(duration=100) that stands in for a missing segment
MISSING_SEGMENT_SILENCE == 100

TemplateKeys == <<"workout", "review_forward", "review_reverse">>

\* required_files of is_day_complete
RequiredFiles ==
    {AUDIO_FILE_MAP[t] : t \in Range(TemplateKeys)}
        \cup {REVIEW_MANIFEST_NAME, WORKOUT_MANIFEST_NAME}

(***************************************************************************)
(* Cache paths and language codes.                                         *)
(***************************************************************************)
\* sha256(text + language_code): text and code decide the path.  No text
\* of the model ends in a language code, so the pair stands for the digest.
get_cache_path(text, language_code) == <<text, language_code>>

get_segment_lang_code_full(segment_key) ==
    LANG_CODE_RESOLVER[LANGUAGE_ROLE_MAP[segment_key]]

get_tts_lang_code(segment_key, use_real) ==
    IF ~use_real
    THEN LANG_CODE_RESOLVER[LANGUAGE_ROLE_MAP[segment_key]]
    ELSE IF LANGUAGE_ROLE_MAP[segment_key] = "TARGET"
         THEN TARGET_LANG_CODE_SHORT
         ELSE BASE_LANG_CODE_SHORT

\* A real call that hashes with the short code it was handed.
RealFullLangCode_Short(language_code) == language_code

\* full_lang_code of real_gtts_api, recovered from the short code
RealFullLangCode(language_code) ==
    LANG_CODE_RESOLVER[IF language_code = TARGET_LANG_CODE_SHORT
                       THEN "TARGET" ELSE "BASE"]

\* The file at a path of the cache directory; the directory is modelled
\* over the paths of non-empty texts, any other path is absent.
Entry(cache, path) == IF path \in DOMAIN cache THEN cache[path] ELSE Absent

(***************************************************************************)
(* Synthesis and the cache.  `outcome` is what the collaborator does when  *)
(* it is invoked: "ok", "no_audio" (gTTS: "No audio for this text") or     *)
(* "error" (any other failure, nothing written).                           *)
(***************************************************************************)
\* Duration of the audio gTTS returns for a text.
SynthMs(text) == IF text \in {"hus", "house", "hjem", "sol", "sun"} THEN 600 ELSE 1900

\* A call result: the cache afterwards, whether synthesis was invoked,
\* and whether the call raised IOError.
CallResult(cache, called, raised) ==
    [cache |-> cache, called |-> called, raised |-> raised]

\* A cache directory that keeps one file: writing one evicts the others.
Store_Evicting(cache, path, f) == [q \in DOMAIN cache |-> IF q = path THEN f ELSE Absent]

\* Writing a file of the cache directory.
Store(cache, path, f) == [cache EXCEPT ![path] = f]

mock_google_tts(text, language_code, cache, outcome) ==
    LET mock_file_path == get_cache_path(text, language_code)
    IN  IF ~Exists(Entry(cache, mock_file_path))
        THEN IF outcome = "ok"
             THEN CallResult(Store(cache, mock_file_path, Empty), TRUE, FALSE)
             ELSE CallResult(cache, TRUE, TRUE)
        ELSE CallResult(cache, FALSE, FALSE)

\* A real call that never looks for the file first.
real_gtts_api_NoLookup(text, language_code, cache, outcome) ==
    LET real_file_path == get_cache_path(text, RealFullLangCode(language_code))
    IN  IF outcome = "ok"
        THEN CallResult(Store(cache, real_file_path, Audio(SynthMs(text))), TRUE, FALSE)
        ELSE CallResult(cache, TRUE, TRUE)

\* A real call that looks for the file under the short language code and
\* saves it under the full one.
real_gtts_api_ShortCodeLookup(text, language_code, cache, outcome) ==
    LET real_file_path == get_cache_path(text, RealFullLangCode(language_code))
    IN  IF Exists(Entry(cache, get_cache_path(text, language_code)))
        THEN CallResult(cache, FALSE, FALSE)
        ELSE CASE outcome = "ok" ->
                    CallResult(Store(cache, real_file_path, Audio(SynthMs(text))),
                               TRUE, FALSE)
               [] outcome = "no_audio" ->
                    CallResult(Store(cache, real_file_path, Empty), TRUE, FALSE)
               [] OTHER ->
                    CallResult(cache, TRUE, TRUE)

real_gtts_api(text, language_code, cache, outcome) ==
    LET full_lang_code == RealFullLangCode(language_code)
        real_file_path == get_cache_path(text, full_lang_code)
    IN  IF Exists(Entry(cache, real_file_path))
        THEN CallResult(cache, FALSE, FALSE)
        ELSE CASE outcome = "ok" ->
                    CallResult(Store(cache, real_file_path, Audio(SynthMs(text))),
                               TRUE, FALSE)
               [] outcome = "no_audio" ->
                    CallResult(Store(cache, real_file_path, Empty), TRUE, FALSE)
               [] OTHER ->
                    CallResult(cache, TRUE, TRUE)

NoFault == [path |-> <<"", "">>, kind |-> "ok"]

OutcomeAt(fault, path) == IF fault.path = path THEN fault.kind ELSE "ok"

\* unique_segments after the loops: every (text, key) of the schedule with
\* a non-empty text is requested once per (text, full language code).
UniqueSegments(full_schedule) ==
    {sg \in {[text |-> full_schedule[i][CONTENT_KEYS[k]], key |-> CONTENT_KEYS[k]] :
                i \in 1..Len(full_schedule), k \in 1..Len(CONTENT_KEYS)} :
        sg.text # ""}

\* tts_func(text_content, tts_lang_code) for one segment
TtsCall(sg, use_real_tts_mode, cache, fault) ==
    LET tts_lang_code == get_tts_lang_code(sg.key, use_real_tts_mode)
        path == get_cache_path(sg.text, get_segment_lang_code_full(sg.key))
    IN  IF use_real_tts_mode
        THEN real_gtts_api(sg.text, tts_lang_code, cache, OutcomeAt(fault, path))
        ELSE mock_google_tts(sg.text, tts_lang_code, cache, OutcomeAt(fault, path))

\* A call writes at most the file at its own path, so the result of the
\* loop is put together from the calls one by one: the cache afterwards,
\* the number of synthesis calls, and one log record per request.
pre_cache_day_segments(full_schedule, use_real_tts_mode, cache, fault) ==
    LET requests == {[path |-> get_cache_path(sg.text,
                                 get_segment_lang_code_full(sg.key)),
                      res |-> TtsCall(sg, use_real_tts_mode, cache, fault)] :
                        sg \in UniqueSegments(full_schedule)}
        written(q) == {r \in requests : r.res.cache[q] # cache[q]}
        after == [q \in DOMAIN cache |->
                    IF written(q) = {} THEN cache[q]
                    ELSE (CHOOSE r \in written(q) : TRUE).res.cache[q]]
    IN  [cache |-> after,
         calls |-> Cardinality({r.path : r \in {x \in requests : x.res.called}}),
         log |-> {[path |-> r.path,
                   before |-> Entry(cache, r.path).kind,
                   synth |-> r.res.called,
                   after |-> Entry(after, r.path).kind] : r \in requests}]

\* The paths pre-caching will ask synthesis for: requested and absent.
MissingPaths(full_schedule, cache) ==
    {q \in {get_cache_path(full_schedule[i][CONTENT_KEYS[k]],
                            get_segment_lang_code_full(CONTENT_KEYS[k])) :
                i \in 1..Len(full_schedule), k \in 1..Len(CONTENT_KEYS)} :
        q[1] # "" /\ ~Exists(Entry(cache, q))}

(***************************************************************************)
(* Specification of one cache call alone: a segment of some master row,    *)
(* the file found at its path, the mode and what synthesis does are drawn  *)
(* in Init; the one action makes the call as pre_cache_day_segments does.  *)
(***************************************************************************)
CacheRows == {RowA(1), RowB(1)}

CacheInputs ==
    {x \in [segment : UNION {UniqueSegments(<<r>>) : r \in CacheRows},
             found : {Absent, Empty, Audio(MOCK_CONTENT_DURATION_SEC)},
             real : BOOLEAN,
             outcome : {"ok", "no_audio", "error"}] :
        ~x.real => x.outcome # "no_audio"}

\* The cache path of the drawn segment.
CachePathOf(x) ==
    get_cache_path(x.segment.text, get_segment_lang_code_full(x.segment.key))

\* The cache directory the call finds.
CacheDirOf(x) ==
    [q \in {CachePathOf(y) : y \in CacheInputs} |->
        IF q = CachePathOf(x) THEN x.found ELSE Absent]

InitCache ==
    /\ fnIn \in CacheInputs
    /\ fnOut = <<>>
    /\ fnPc = "ready"
    /\ WfParked

CallCache ==
    /\ fnPc = "ready"
    /\ fnOut' = TtsCall(fnIn.segment, fnIn.real, CacheDirOf(fnIn),
                        [path |-> CachePathOf(fnIn), kind |-> fnIn.outcome])
    /\ fnPc' = "done"
    /\ UNCHANGED <<fnIn, wfVars>>

NextCache == CallCache

SpecCache == InitCache /\ [][NextCache]_vars

\* C11: when a file is present at the path of (text, language) the call
\* leaves it as it is and does not invoke synthesis; on a miss synthesis is
\* invoked, once, and when the call returns the entry is on disk, holding
\* the synthesized audio when synthesis succeeded in real mode.
C11_GetOrCreate ==
    fnPc = "done" =>
        LET path == CachePathOf(fnIn)
        IN  /\ Exists(fnIn.found)
                => /\ ~fnOut.called /\ ~fnOut.raised
                   /\ fnOut.cache = CacheDirOf(fnIn)
            /\ ~Exists(fnIn.found)
                => /\ fnOut.called
                   /\ ~fnOut.raised => Exists(fnOut.cache[path])
                   /\ (fnIn.real /\ fnIn.outcome = "ok")
                        => /\ ~fnOut.raised
                           /\ fnOut.cache[path] = Audio(SynthMs(fnIn.segment.text))
                   /\ \A q \in DOMAIN fnOut.cache :
                         q # path => fnOut.cache[q] = CacheDirOf(fnIn)[q]

\* Witness of C11: a real-mode miss for a base-language text was answered
\* by synthesis and the audio is in the cache under the full language code.
C11_Witness ==
    /\ fnPc = "done" /\ fnIn.real /\ fnIn.found = Absent /\ fnIn.outcome = "ok"
    /\ fnIn.segment.key = "W1"
    /\ fnOut.called
    /\ fnOut.cache[<<fnIn.segment.text, BASE_LANG_CODE_FULL>>].kind = "audio"

\* mock_file_path and real_file_path: where the call for a segment writes.
WritePath(sg, use_real_tts_mode) ==
    LET tts_lang_code == get_tts_lang_code(sg.key, use_real_tts_mode)
    IN  IF use_real_tts_mode
        THEN get_cache_path(sg.text, RealFullLangCode(tts_lang_code))
        ELSE get_cache_path(sg.text, tts_lang_code)

\* cached_path of generate_audio_from_template: where the compiler reads.
ReadPath(sg) == get_cache_path(sg.text, get_segment_lang_code_full(sg.key))

\* C33: for every content key and text, the path the pre-caching call
\* writes, in mock and in real mode, is the path the compiler reads; after
\* a call that succeeded the compiler finds a file there.
C33_WritePathIsReadPath ==
    fnPc = "done" =>
        /\ WritePath(fnIn.segment, fnIn.real) = ReadPath(fnIn.segment)
        /\ fnIn.outcome = "ok" => Exists(Entry(fnOut.cache, ReadPath(fnIn.segment)))
        /\ \A q \in DOMAIN fnOut.cache :
              q # ReadPath(fnIn.segment) => fnOut.cache[q] = CacheDirOf(fnIn)[q]

\* Witness of C33: a real-mode call for an L2 text found no file and wrote
\* the synthesized audio where the compiler reads it.
C33_Witness ==
    /\ fnPc = "done" /\ fnIn.real /\ fnIn.outcome = "ok"
    /\ fnIn.segment.key = "L2"
    /\ fnIn.found = Absent
    /\ fnOut.called
    /\ Entry(fnOut.cache, ReadPath(fnIn.segment)).kind = "audio"

\* The calls in which synthesis is invoked and fails.
SynthesisFails(x) == ~Exists(x.found) /\ x.outcome # "ok"

\* What the call drawn as x does.
CacheCallOf(x) ==
    TtsCall(x.segment, x.real, CacheDirOf(x),
            [path |-> CachePathOf(x), kind |-> x.outcome])

\* C25: when synthesis fails, one implementation treats every failure the
\* same way: it raises for all of them or stores a placeholder for all of
\* them.
C25_OneFailurePolicy ==
    (fnPc = "done" /\ SynthesisFails(fnIn)) =>
        \A x \in CacheInputs :
            (SynthesisFails(x) /\ x.real = fnIn.real)
                => /\ CacheCallOf(x).raised = fnOut.raised
                   /\ Exists(Entry(CacheCallOf(x).cache, CachePathOf(x)))
                        = Exists(Entry(fnOut.cache, CachePathOf(fnIn)))

(***************************************************************************)
(* Two executions of the program that share the cache directory and call   *)
(* real_gtts_api for the same text at the same time.  Each call is two     *)
(* steps: the test real_file_path.exists(), and, on a miss, the gTTS call  *)
(* with the write of the file.  fnOut is the file at the path with the     *)
(* number of synthesis calls and of writes so far.                         *)
(***************************************************************************)
RaceProcs == {1, 2}

RaceInputs ==
    [segment : UNION {UniqueSegments(<<r>>) : r \in CacheRows},
     found : {Absent, Empty, Audio(MOCK_CONTENT_DURATION_SEC)}]

InitRace ==
    /\ fnIn \in RaceInputs
    /\ fnOut = [file |-> fnIn.found, calls |-> 0, writes |-> 0]
    /\ fnPc = [e \in RaceProcs |-> "exists"]
    /\ WfParked

\* if real_file_path.exists(): return real_file_path
RaceExists(e) ==
    /\ fnPc[e] = "exists"
    /\ fnPc' = [fnPc EXCEPT ![e] = IF Exists(fnOut.file) THEN "returned" ELSE "api_call"]
    /\ UNCHANGED <<fnIn, fnOut, wfVars>>

\* gTTS(...), tts.save(real_file_path), and the except block
RaceApiCall(e) ==
    /\ fnPc[e] = "api_call"
    /\ \E outcome \in {"ok", "no_audio", "error"} :
         /\ fnOut' = [file |-> CASE outcome = "ok" -> Audio(SynthMs(fnIn.segment.text))
                                 [] outcome = "no_audio" -> Touch(fnOut.file)
                                 [] OTHER -> fnOut.file,
                       calls |-> fnOut.calls + 1,
                       writes |-> IF outcome = "ok" \/ (outcome = "no_audio" /\ ~Exists(fnOut.file))
                                  THEN fnOut.writes + 1 ELSE fnOut.writes]
         /\ fnPc' = [fnPc EXCEPT ![e] = IF outcome = "error" THEN "raised" ELSE "returned"]
    /\ UNCHANGED <<fnIn, wfVars>>

NextRace == \E e \in RaceProcs : RaceExists(e) \/ RaceApiCall(e)

SpecRace == InitRace /\ [][NextRace]_vars

\* C28: when two executions resolve the same cache key at the same time,
\* synthesis for the key is performed by one of them only and the entry is
\* written once.
C28_OneSynthesisOneWrite ==
    fnOut.calls <= 1 /\ fnOut.writes <= 1

(***************************************************************************)
(* Compiler: generate_audio_from_template.                                 *)
(***************************************************************************)
\* One template token for one schedule entry: what is added to
\* expected_duration_sec and what is appended to final_audio.
TokenDurations(item, segment_key, is_real_mode, cache) ==
    IF SEGMENT_ACTIONS[segment_key] = "CONTENT"
    THEN LET text_content == item[segment_key]
             full_lang_code == get_segment_lang_code_full(segment_key)
             cached_path == get_cache_path(text_content, full_lang_code)
             entry == Entry(cache, cached_path)
             pause == PAUSE_DURATIONS[segment_key]
         IN  IF ~is_real_mode
             THEN [expected |-> MOCK_CONTENT_DURATION_SEC + pause, audio |-> 0]
             ELSE IF entry.kind = "audio"
                  THEN [expected |-> entry.ms + pause, audio |-> entry.ms + pause]
                  ELSE [expected |-> MOCK_CONTENT_DURATION_SEC + pause,
                        audio |-> MISSING_SEGMENT_SILENCE + pause]
    ELSE [expected |-> PAUSE_DURATIONS[segment_key],
          audio |-> IF is_real_mode THEN PAUSE_DURATIONS[segment_key] ELSE 0]

\* for segment_key in template.split(...): the totals of one entry
RECURSIVE ItemDurations(_, _, _, _, _)
ItemDurations(item, template, k, is_real_mode, cache) ==
    IF k > Len(template) THEN [expected |-> 0, audio |-> 0]
    ELSE LET t == TokenDurations(item, template[k], is_real_mode, cache)
             r == ItemDurations(item, template, k + 1, is_real_mode, cache)
         IN  [expected |-> t.expected + r.expected, audio |-> t.audio + r.audio]

\* for item in data_list: the totals of the entries lo..hi (the list is
\* summed by halves).
RECURSIVE SumDurations(_, _, _, _, _, _)
SumDurations(data_list, template, lo, hi, is_real_mode, cache) ==
    IF lo > hi THEN [expected |-> 0, audio |-> 0]
    ELSE IF lo = hi
         THEN ItemDurations(data_list[lo], template, 1, is_real_mode, cache)
         ELSE LET mid == (lo + hi) \div 2
                  l == SumDurations(data_list, template, lo, mid, is_real_mode, cache)
                  r == SumDurations(data_list, template, mid + 1, hi, is_real_mode,
                                    cache)
              IN  [expected |-> l.expected + r.expected, audio |-> l.audio + r.audio]

\* Returns expected_duration_sec, the duration of final_audio, and the
\* track file afterwards.  `export` is "ok", "fail" (nothing written) or
\* "fail_empty" (the export failed after creating the file).
generate_audio_from_template(old_file, template_key, data_list, use_real_concat_mode, cache, export) ==
    LET d == SumDurations(data_list, AUDIO_TEMPLATES[template_key], 1,
                          Len(data_list), use_real_concat_mode, cache)
    IN  [expected |-> d.expected,
         assembled |-> d.audio,
         file |-> IF ~use_real_concat_mode THEN Touch(old_file)
                  ELSE CASE export = "ok" -> Audio(d.audio)
                         [] export = "fail_empty" -> Empty
                         [] OTHER -> old_file]

\* One thing appended to final_audio: the audio loaded from a cache file,
\* or AudioSegment.silent(duration=ms).
LoadedAudio(path, ms) == [kind |-> "audio", path |-> path, ms |-> ms]
Silent(ms) == [kind |-> "silent", path |-> <<"", "">>, ms |-> ms]

\* What one segment_key appends to final_audio in real mode.
TokenAppends(item, segment_key, cache) ==
    IF SEGMENT_ACTIONS[segment_key] = "CONTENT"
    THEN LET text_content == item[segment_key]
             full_lang_code == get_segment_lang_code_full(segment_key)
             cached_path == get_cache_path(text_content, full_lang_code)
             entry == Entry(cache, cached_path)
         IN  <<IF entry.kind = "audio" THEN LoadedAudio(cached_path, entry.ms)
               ELSE Silent(MISSING_SEGMENT_SILENCE),
               Silent(PAUSE_DURATIONS[segment_key])>>
    ELSE <<Silent(PAUSE_DURATIONS[segment_key])>>

\* final_audio after the loops over data_list and the template, from the
\* n-th (item, segment_key) pair on.
RECURSIVE AppendsFrom(_, _, _, _)
AppendsFrom(data_list, template, n, cache) ==
    IF n > Len(data_list) * Len(template) THEN <<>>
    ELSE TokenAppends(data_list[((n - 1) \div Len(template)) + 1],
                      template[((n - 1) % Len(template)) + 1], cache)
         \o AppendsFrom(data_list, template, n + 1, cache)

\* final_audio as the sequence of what was appended; in mock mode no
\* final_audio is built.
final_audio(template_key, data_list, use_real_concat_mode, cache) ==
    IF use_real_concat_mode
    THEN AppendsFrom(data_list, AUDIO_TEMPLATES[template_key], 1, cache)
    ELSE <<>>

(***************************************************************************)
(* Validator: verify_audio_duration_integrity.                             *)
(***************************************************************************)
\* A validator whose tolerance leaves the bound itself out.
verify_StrictTolerance(file, expected_duration_sec, use_real_concat_mode, REAL_CONCAT_AVAILABLE) ==
    IF ~Exists(file) THEN FALSE
    ELSE IF ~use_real_concat_mode THEN TRUE
    ELSE IF ~NonEmpty(file) THEN TRUE
    ELSE IF REAL_CONCAT_AVAILABLE
         THEN IF file.kind = "audio"
              THEN Abs(file.ms - expected_duration_sec) < DURATION_TOLERANCE_SEC
              ELSE FALSE
         ELSE TRUE

verify_audio_duration_integrity(file, expected_duration_sec, use_real_concat_mode, REAL_CONCAT_AVAILABLE) ==
    IF ~Exists(file) THEN FALSE
    ELSE IF ~use_real_concat_mode THEN TRUE
    ELSE IF ~NonEmpty(file) THEN TRUE
    ELSE IF REAL_CONCAT_AVAILABLE
         THEN IF file.kind = "audio"
              THEN Abs(file.ms - expected_duration_sec) <= DURATION_TOLERANCE_SEC
              ELSE FALSE
         ELSE TRUE

(***************************************************************************)
(* Specification of the validator alone: a track file, the expected        *)
(* duration and the mode are drawn in Init.  use_real_concat_mode is true  *)
(* only when the audio library was imported (run_environment_check).       *)
(***************************************************************************)
\* Expected durations: whole seconds up to MaxTrackSec.
VerifyExpected == {k * 1000 : k \in 0..MaxTrackSec}

\* Distance of the measured duration from the expected one: none, one
\* millisecond, and the tolerance with one millisecond either side.
VerifyDeltas ==
    {0, 1, -1} \cup {sg * (DURATION_TOLERANCE_SEC + e) : sg \in {1, -1}, e \in {-1, 0, 1}}

VerifyInputs ==
    {x \in [file : {Absent, Empty, Corrupt}
                      \cup {Audio(ms) : ms \in 0..(MaxTrackSec * 1000
                                                    + DURATION_TOLERANCE_SEC + 1)},
             expected : VerifyExpected,
             real : BOOLEAN,
             available : BOOLEAN] :
        /\ x.real => x.available
        /\ x.file.kind = "audio" => (x.file.ms - x.expected) \in VerifyDeltas}

InitVerify ==
    /\ fnIn \in VerifyInputs
    /\ fnOut = <<>>
    /\ fnPc = "ready"
    /\ WfParked

CallVerify ==
    /\ fnPc = "ready"
    /\ fnOut' = verify_audio_duration_integrity(fnIn.file, fnIn.expected, fnIn.real,
                                                 fnIn.available)
    /\ fnPc' = "done"
    /\ UNCHANGED <<fnIn, wfVars>>

NextVerify == CallVerify

SpecVerify == InitVerify /\ [][NextVerify]_vars

\* C9: in real mode a zero-byte or missing track file is never reported
\* valid; such a file is reported valid only in mock mode.
C9_RealModeRejectsEmptyOrMissing ==
    (fnPc = "done" /\ fnIn.real /\ fnIn.file.kind \in {"absent", "empty"})
    => fnOut = FALSE

ManifestRows_ZeroBased(schedule_data) ==
    [i \in 1..Len(schedule_data) |-> [sequence |-> i - 1, item |-> schedule_data[i]]]

\* The rows written for a schedule: enumerate(schedule_data), sequence i + 1.
ManifestRows(schedule_data) ==
    [i \in 1..Len(schedule_data) |-> [sequence |-> i, item |-> schedule_data[i]]]

\* `outcome` is "ok", "fail" (open failed, nothing written) or
\* "fail_truncated" (the file was opened for writing, then the write failed).
\* A manifest writer that never writes.
write_manifest_csv_NoWrite(old_file, schedule_data, outcome) == old_file

write_manifest_csv(old_file, schedule_data, outcome) ==
    CASE outcome = "ok" -> Csv(ManifestRows(schedule_data))
      [] outcome = "fail_truncated" -> Empty
      [] OTHER -> old_file

\* A completeness check that looks at the manifests only.
is_day_complete_ManifestsOnly(dirs, day) ==
    IF ~dirs[day].dir THEN FALSE
    ELSE \A filename \in {REVIEW_MANIFEST_NAME, WORKOUT_MANIFEST_NAME} :
            Exists(dirs[day].files[filename])

\* A completeness test that wants every required file to have content.
is_day_complete_NonEmpty(dirs, day) ==
    IF ~dirs[day].dir THEN FALSE
    ELSE \A filename \in RequiredFiles : NonEmpty(dirs[day].files[filename])

is_day_complete(dirs, day) ==
    IF ~dirs[day].dir THEN FALSE
    ELSE \A filename \in RequiredFiles : Exists(dirs[day].files[filename])

\* mock_data of initialize_source_data
MockData ==
    <<MasterRow("sol", "sun", "Solen skinner i dag.", "The sun is shining today.", 1),
      MasterRow("maane", "moon", "Maanen er smuk i aften.",
                "The moon is beautiful tonight.", 1),
      MasterRow("vand", "water", "Jeg skal have noget vand.", "I need some water.", 1),
      MasterRow("tryghed", "security", "Vi soeger tryghed.", "We seek security.", 2),
      MasterRow("akkord", "chord", "Han spiller en akkord.", "He plays a chord.", 2),
      MasterRow("lys", "light", "Der er lys for enden af tunnelen.",
                "There er light at the end of the tunnel.", 3),
      MasterRow("moerke", "darkness", "Moerket faldt paa.", "The darkness fell.", 3)>>

SrcAbsent == [kind |-> "absent", rows |-> <<>>]
SrcMalformed == [kind |-> "malformed", rows |-> <<>>]
SrcRows(rows) == [kind |-> "ok", rows |-> rows]

\* `created` tells whether writing the mock file succeeded.
initialize_source_data(created) == IF created THEN SrcRows(MockData) ELSE SrcAbsent

\* (real_tts_mode, real_concat_mode) of run_environment_check
run_environment_check(REAL_TTS_AVAILABLE, REAL_CONCAT_AVAILABLE, FFMPEG_AVAILABLE) ==
    LET real_tts_mode == USE_REAL_TTS /\ REAL_TTS_AVAILABLE
        real_concat_mode == REAL_CONCAT_AVAILABLE /\ FFMPEG_AVAILABLE
    IN  IF USE_REAL_TTS
        THEN IF real_tts_mode /\ real_concat_mode
             THEN [tts |-> TRUE, concat |-> TRUE]
             ELSE [tts |-> FALSE, concat |-> FALSE]
        ELSE [tts |-> real_tts_mode, concat |-> real_concat_mode]

\* A max_day that reaches to the first review of the last study day.
MaxStudyDayOf_WithReview(data) ==
    IF data = <<>> THEN 0
    ELSE 1 + CHOOSE m \in {data[i].StudyDay : i \in 1..Len(data)} :
                 \A i \in 1..Len(data) : data[i].StudyDay <= m

\* max(item['StudyDay'] for item in data) if data else 0
MaxStudyDayOf(data) ==
    IF data = <<>> THEN 0
    ELSE CHOOSE m \in {data[i].StudyDay : i \in 1..Len(data)} :
             \A i \in 1..Len(data) : data[i].StudyDay <= m

load_and_validate_source_data(src) ==
    IF src.kind # "ok" THEN [data |-> <<>>, max_day |-> 0]
    ELSE [data |-> src.rows, max_day |-> MaxStudyDayOf(src.rows)]

\* list(range(1, max_day + 1))
DayRange(max_day) == [d \in 1..max_day |-> d]

\* A day selection that takes every run for an initial run.
DaysToProcess_AllDays(initial, max_day, dirs) == DayRange(max_day)

\* A day selection that lists every selected day twice.
DaysToProcess_Twice(initial, max_day, dirs) ==
    LET r == IF initial THEN DayRange(max_day)
             ELSE SelectSeq(DayRange(max_day), LAMBDA day : ~is_day_complete(dirs, day))
    IN  r \o r

\* A day selection that starts with the last day.
DaysToProcess_Descending(initial, max_day, dirs) ==
    LET r == IF initial THEN DayRange(max_day)
             ELSE SelectSeq(DayRange(max_day), LAMBDA day : ~is_day_complete(dirs, day))
    IN  [i \in 1..Len(r) |-> r[Len(r) + 1 - i]]

DaysToProcess(initial, max_day, dirs) ==
    IF initial
    THEN DayRange(max_day)
    ELSE SelectSeq(DayRange(max_day), LAMBDA day : ~is_day_complete(dirs, day))

(***************************************************************************)
(* Specification of is_day_complete alone: the directory of one day, with  *)
(* each required file missing, empty, unreadable or with content.          *)
(***************************************************************************)
CompleteFileStates == {Absent, Empty, Corrupt, Audio(MOCK_CONTENT_DURATION_SEC), Csv(<<>>)}

CompleteInputs ==
    {x \in [dir : BOOLEAN, files : [RequiredFiles -> CompleteFileStates]] :
        ~x.dir => \A f \in RequiredFiles : x.files[f] = Absent}

InitComplete ==
    /\ fnIn \in CompleteInputs
    /\ fnOut = <<>>
    /\ fnPc = "ready"
    /\ WfParked

CallComplete ==
    /\ fnPc = "ready"
    /\ fnOut' = is_day_complete([d \in {1} |-> fnIn], 1)
    /\ fnPc' = "done"
    /\ UNCHANGED <<fnIn, wfVars>>

\* daystoprocess.py: the files of a day directory, counted.
FileCount(day_dir) ==
    Cardinality({f \in RequiredFiles : Exists(day_dir.files[f])})

\* daystoprocess.py: the days of the folder whose directory exists and
\* holds a number of files other than 4.
result(dirs) ==
    {d \in DOMAIN dirs : dirs[d].dir /\ FileCount(dirs[d]) # 4}

\* The helper is run over the folder is_day_complete has looked at.
CallDaysToProcess ==
    /\ fnPc = "done"
    /\ fnOut' = [complete |-> fnOut, listed |-> result([d \in {1} |-> fnIn])]
    /\ fnPc' = "listed"
    /\ UNCHANGED <<fnIn, wfVars>>

NextComplete == CallComplete \/ CallDaysToProcess

SpecComplete == InitComplete /\ [][NextComplete]_vars

\* C22: is_day_complete is true iff the day directory exists and each of
\* the three tracks and the two manifests exists in it, whatever the files
\* hold.
C22_CompleteIffAllFilesExist ==
    fnPc = "done" =>
        (fnOut <=> /\ fnIn.dir
                   /\ fnIn.files["workout.mp3"].kind # "absent"
                   /\ fnIn.files["review_forward.mp3"].kind # "absent"
                   /\ fnIn.files["review_reverse.mp3"].kind # "absent"
                   /\ fnIn.files["review_manifest.csv"].kind # "absent"
                   /\ fnIn.files["workout_manifest.csv"].kind # "absent")

\* Witness of C22: a day of empty and unreadable files counts as complete.
C22_Witness ==
    /\ fnPc = "done"
    /\ fnOut = TRUE
    /\ fnIn.files["workout.mp3"] = Empty
    /\ fnIn.files["review_forward.mp3"] = Corrupt
    /\ fnIn.files["workout_manifest.csv"] = Csv(<<>>)

\* C39: daystoprocess.py reports a day directory as needing processing
\* exactly when is_day_complete reports that day as not complete: a day with
\* every required file is not listed, a day missing a required file is.
C39_ListedIffNotComplete ==
    fnPc = "listed" => (1 \in fnOut.listed <=> ~fnOut.complete)

(***************************************************************************)
(* The workflow: main_workflow and process_day, step by step.              *)
(***************************************************************************)
WfPool == {RowA(1)} \cup {RowB(d) : d \in 1..WfMaxStudyDay}

\* The day directories a run can write.
OutDays == 1..(IF WfMaxStudyDay > 3 THEN WfMaxStudyDay ELSE 3)

\* The cache paths a run can write: one per non-empty text and language.
CachePaths ==
    {q \in {get_cache_path(r[CONTENT_KEYS[k]],
                           get_segment_lang_code_full(CONTENT_KEYS[k])) :
                r \in Range(MockData) \cup WfPool, k \in 1..Len(CONTENT_KEYS)} :
        q[1] # ""}

EmptyCacheDir == [q \in CachePaths |-> Absent]

NoDay == [dir |-> FALSE, files |-> [f \in RequiredFiles |-> Absent]]

NoGen == [day |-> 0, template |-> "", real |-> FALSE, items |-> <<>>, expected |-> 0, assembled |-> 0]
NoVerify == [day |-> 0, template |-> "", real |-> FALSE, file |-> Absent,
             expected |-> 0, valid |-> FALSE, mismatch |-> {}]

InitWorkflow ==
    /\ FnParked
    /\ srcFile \in {SrcAbsent, SrcMalformed}
                      \cup {SrcRows(m) : m \in InjSeqs(WfPool, WfMaxMaster)}
    /\ dayDirs = [d \in OutDays |-> NoDay]
    /\ ttsCache = EmptyCacheDir
    /\ pc = "idle"
    /\ runs = 0
    /\ runMode = [tts |-> FALSE, concat |-> FALSE]
    /\ isInitialRun = FALSE
    /\ loaded = <<>>
    /\ queue = <<>>
    /\ processed = <<>>
    /\ apiCalls = 0
    /\ faults = 0
    /\ edits = <<>>
    /\ atStart = [srcFile |-> SrcAbsent, dayDirs |-> [d \in OutDays |-> NoDay],
                  ttsCache |-> EmptyCacheDir, apiCalls |-> 0, faults |-> 0,
                  edits |-> <<>>]
    /\ cacheLog = {}
    /\ lastGen = NoGen
    /\ lastVerify = NoVerify

\* The schedule of the day being processed.
CurrentDay == Head(queue)
FullSchedule ==
    generate_full_repetition_schedule(loaded, MaxStudyDayOf(loaded))[CurrentDay]
WorkoutSchedule == SelectSeq(FullSchedule, LAMBDA e : e.type = ScheduleType_NEW)

\* A writer that ignores day_path and writes the file into every day.
SetFile_EveryDay(dirs, day, filename, f) ==
    [d \in DOMAIN dirs |-> [dir |-> TRUE,
                             files |-> [dirs[d].files EXCEPT ![filename] = f]]]

SetFile(dirs, day, filename, f) ==
    [dirs EXCEPT ![day] = [dir |-> TRUE,
                           files |-> [@.files EXCEPT ![filename] = f]]]

\* main_workflow up to the loop over days_to_process.
StartRun ==
    /\ pc = "idle"
    /\ runs < MaxRuns
    /\ \E tts_available, concat_available, ffmpeg_available, created \in BOOLEAN :
         LET initial == srcFile.kind = "absent"
             src == IF initial THEN initialize_source_data(created) ELSE srcFile
             flags == run_environment_check(tts_available, concat_available,
                                            ffmpeg_available)
             data == load_and_validate_source_data(src)
             todo == DaysToProcess(initial, data.max_day, dayDirs)
         IN  /\ (initial /\ ~created) => faults < MaxFaults
             /\ ~initial => created
             /\ faults' = IF initial /\ ~created THEN faults + 1 ELSE faults
             /\ atStart' = [srcFile |-> srcFile, dayDirs |-> dayDirs,
                            ttsCache |-> ttsCache, apiCalls |-> apiCalls,
                            faults |-> faults, edits |-> edits]
             /\ srcFile' = src
             /\ runMode' = flags
             /\ isInitialRun' = initial
             /\ loaded' = data.data
             /\ queue' = IF data.data = <<>> THEN <<>> ELSE todo
             /\ pc' = IF data.data = <<>> \/ todo = <<>> THEN "idle" ELSE "precache"
    /\ runs' = runs + 1
    /\ processed' = <<>>
    /\ edits' = <<>>
    /\ cacheLog' = {}
    /\ lastGen' = NoGen
    /\ lastVerify' = NoVerify
    /\ UNCHANGED <<fnVars, dayDirs, ttsCache, apiCalls>>

\* process_day: day_path.mkdir and pre_cache_day_segments.
PreCache ==
    /\ pc = "precache"
    /\ \E fault \in {NoFault} \cup
                    {[path |-> q, kind |-> k] :
                        q \in MissingPaths(FullSchedule, ttsCache),
                        k \in IF runMode.tts THEN {"no_audio", "error"}
                                             ELSE {"error"}} :
         LET r == pre_cache_day_segments(FullSchedule, runMode.tts, ttsCache, fault)
         IN  /\ fault # NoFault => faults < MaxFaults
             /\ faults' = IF fault # NoFault THEN faults + 1 ELSE faults
             /\ ttsCache' = r.cache
             /\ apiCalls' = apiCalls + r.calls
             /\ cacheLog' = r.log
    /\ dayDirs' = [dayDirs EXCEPT ![CurrentDay].dir = TRUE]
    /\ processed' = Append(processed, CurrentDay)
    /\ pc' = "man_review"
    /\ UNCHANGED <<fnVars, srcFile, runs, runMode, isInitialRun, loaded, queue,
                   edits, atStart, lastGen, lastVerify>>

WriteManifest(at, filename, schedule_data, next) ==
    /\ pc = at
    /\ \E outcome \in {"ok", "fail", "fail_truncated"} :
         /\ outcome # "ok" => faults < MaxFaults
         /\ faults' = IF outcome # "ok" THEN faults + 1 ELSE faults
         /\ dayDirs' = SetFile(dayDirs, CurrentDay, filename,
                          write_manifest_csv(dayDirs[CurrentDay].files[filename],
                                             schedule_data, outcome))
    /\ pc' = next
    /\ UNCHANGED <<fnVars, srcFile, ttsCache, runs, runMode, isInitialRun, loaded,
                   queue, processed, apiCalls, edits, atStart, cacheLog, lastGen,
                   lastVerify>>

WriteReviewManifest ==
    WriteManifest("man_review", REVIEW_MANIFEST_NAME, FullSchedule, "man_workout")

WriteWorkoutManifest ==
    WriteManifest("man_workout", WORKOUT_MANIFEST_NAME, WorkoutSchedule, "gen_workout")

GenPc == [workout |-> "gen_workout", review_forward |-> "gen_review_forward",
          review_reverse |-> "gen_review_reverse"]
VerPc == [workout |-> "ver_workout", review_forward |-> "ver_review_forward",
          review_reverse |-> "ver_review_reverse"]

\* A process_day that hands full_schedule to every template.
DataList_AllDue(template_key) ==
    FullSchedule

\* The data_list argument of each generate_audio_from_template call.
DataList(template_key) ==
    IF template_key = "workout" THEN WorkoutSchedule ELSE FullSchedule

\* process_day: one call of generate_audio_from_template.
Generate(template_key) ==
    /\ pc = GenPc[template_key]
    /\ \E export \in IF runMode.concat THEN {"ok", "fail", "fail_empty"} ELSE {"ok"} :
         LET filename == AUDIO_FILE_MAP[template_key]
             g == generate_audio_from_template(dayDirs[CurrentDay].files[filename],
                     template_key, DataList(template_key), runMode.concat,
                     ttsCache, export)
         IN  /\ export # "ok" => faults < MaxFaults
             /\ faults' = IF export # "ok" THEN faults + 1 ELSE faults
             /\ dayDirs' = SetFile(dayDirs, CurrentDay, filename, g.file)
             /\ lastGen' = [day |-> CurrentDay, template |-> template_key,
                            real |-> runMode.concat,
                            items |-> DataList(template_key),
                            expected |-> g.expected,
                            assembled |-> g.assembled]
    /\ pc' = VerPc[template_key]
    /\ UNCHANGED <<fnVars, srcFile, ttsCache, runs, runMode, isInitialRun, loaded,
                   queue, processed, apiCalls, edits, atStart, cacheLog, lastVerify>>

\* A process_day with a strict mode: a validation that fails ends the run.
Verify_Strict(template_key) ==
    /\ pc = VerPc[template_key]
    /\ LET file == dayDirs[CurrentDay].files[AUDIO_FILE_MAP[template_key]]
           is_valid == verify_audio_duration_integrity(file, lastGen.expected,
                           runMode.concat, runMode.concat)
           before == IF lastVerify.day = CurrentDay THEN lastVerify.mismatch ELSE {}
       IN  lastVerify' =
               [day |-> CurrentDay, template |-> template_key,
                real |-> runMode.concat, file |-> file,
                expected |-> lastGen.expected,
                valid |-> is_valid,
                mismatch |-> IF ~is_valid /\ file.kind = "audio"
                             THEN before \cup {template_key} ELSE before]
    /\ IF ~lastVerify'.valid
       THEN pc' = "off" /\ queue' = queue
       ELSE IF template_key = "workout"
       THEN pc' = GenPc["review_forward"] /\ queue' = queue
       ELSE IF template_key = "review_forward"
            THEN pc' = GenPc["review_reverse"] /\ queue' = queue
            ELSE /\ queue' = Tail(queue)
                 /\ pc' = IF Tail(queue) = <<>> THEN "idle" ELSE "precache"
    /\ UNCHANGED <<fnVars, srcFile, dayDirs, ttsCache, runs, runMode, isInitialRun,
                   loaded, processed, apiCalls, faults, edits, atStart, cacheLog,
                   lastGen>>

\* process_day: one call of verify_audio_duration_integrity; after the last
\* one the day is done and the loop of main_workflow moves on.
Verify(template_key) ==
    /\ pc = VerPc[template_key]
    /\ LET file == dayDirs[CurrentDay].files[AUDIO_FILE_MAP[template_key]]
           is_valid == verify_audio_duration_integrity(file, lastGen.expected,
                           runMode.concat, runMode.concat)
           before == IF lastVerify.day = CurrentDay THEN lastVerify.mismatch ELSE {}
       IN  lastVerify' =
               [day |-> CurrentDay, template |-> template_key,
                real |-> runMode.concat, file |-> file,
                expected |-> lastGen.expected,
                valid |-> is_valid,
                mismatch |-> IF ~is_valid /\ file.kind = "audio"
                             THEN before \cup {template_key} ELSE before]
    /\ IF template_key = "workout"
       THEN pc' = GenPc["review_forward"] /\ queue' = queue
       ELSE IF template_key = "review_forward"
            THEN pc' = GenPc["review_reverse"] /\ queue' = queue
            ELSE /\ queue' = Tail(queue)
                 /\ pc' = IF Tail(queue) = <<>> THEN "idle" ELSE "precache"
    /\ UNCHANGED <<fnVars, srcFile, dayDirs, ttsCache, runs, runMode, isInitialRun,
                   loaded, processed, apiCalls, faults, edits, atStart, cacheLog,
                   lastGen>>

\* An exception nothing catches (an OSError of mkdir, touch or stat, an
\* interrupt) ends process_day and main_workflow where they stand; the
\* history is not followed past it.
Crash ==
    /\ pc \notin {"idle", "off"}
    /\ faults < MaxFaults
    /\ faults' = faults + 1
    /\ pc' = "off"
    /\ UNCHANGED <<fnVars, srcFile, dayDirs, ttsCache, runs, runMode, isInitialRun,
                   loaded, queue, processed, apiCalls, edits, atStart, cacheLog,
                   lastGen, lastVerify>>

\* Between runs the user deletes one output file of a day.
DeleteOutput ==
    /\ pc = "idle"
    /\ Len(edits) < MaxEdits
    /\ \E d \in OutDays, f \in RequiredFiles :
         /\ Exists(dayDirs[d].files[f])
         /\ dayDirs' = [dayDirs EXCEPT ![d].files[f] = Absent]
         /\ edits' = Append(edits, [kind |-> "delete_output", day |-> d, file |-> f])
    /\ UNCHANGED <<fnVars, srcFile, ttsCache, pc, runs, runMode, isInitialRun, loaded,
                   queue, processed, apiCalls, faults, atStart, cacheLog, lastGen,
                   lastVerify>>

\* Between runs the user removes sentence_pairs.csv.
RemoveSource ==
    /\ pc = "idle"
    /\ Len(edits) < MaxEdits
    /\ srcFile.kind # "absent"
    /\ srcFile' = SrcAbsent
    /\ edits' = Append(edits, [kind |-> "remove_source", day |-> 0, file |-> ""])
    /\ UNCHANGED <<fnVars, dayDirs, ttsCache, pc, runs, runMode, isInitialRun, loaded,
                   queue, processed, apiCalls, faults, atStart, cacheLog, lastGen,
                   lastVerify>>

Next ==
    \/ StartRun
    \/ PreCache
    \/ WriteReviewManifest
    \/ WriteWorkoutManifest
    \/ \E t \in Range(TemplateKeys) : Generate(t)
    \/ \E t \in Range(TemplateKeys) : Verify(t)
    \/ Crash
    \/ DeleteOutput
    \/ RemoveSource

Spec == InitWorkflow /\ [][Next]_vars


(***************************************************************************)
(* Properties of the workflow.                                             *)
(***************************************************************************)
\* Every required file of the day exists.
HasAllRequired(dirs, day) ==
    dirs[day].dir /\ \A f \in RequiredFiles : Exists(dirs[day].files[f])

\* The required files of the day that exist.
Present(dirs, day) == {f \in RequiredFiles : Exists(dirs[day].files[f])}

\* max_day of the master file as a run finds it.
MaxDayOf(src) == load_and_validate_source_data(src).max_day

\* A run has happened and nobody touched the disk since it started.
RunUndisturbed == runs >= 1 /\ edits = <<>>

\* What "the second run did nothing" means.
RunDidNothing ==
    /\ processed = <<>>
    /\ dayDirs = atStart.dayDirs
    /\ ttsCache = atStart.ttsCache
    /\ apiCalls = atStart.apiCalls

\* C3: a run that follows another run with no change in between processes
\* no day, leaves output and cache files as they were, and makes no
\* synthesis call.
C3_SecondRunDoesNothing ==
    (runs >= 2 /\ edits = <<>> /\ atStart.edits = <<>>) => RunDidNothing

\* C3 (amended): a run that follows another run with no change in between,
\* when the earlier run left the master file on disk and every day
\* 1..max_day complete, processes no day, leaves output and cache files as
\* they were, and makes no synthesis call.
C3_SecondRunAfterCompleteRun ==
    (/\ runs >= 2 /\ edits = <<>> /\ atStart.edits = <<>>
     /\ atStart.srcFile.kind # "absent"
     /\ \A d \in 1..MaxDayOf(atStart.srcFile) : HasAllRequired(atStart.dayDirs, d))
    => RunDidNothing

\* Witness of C3: the second run found two complete days that the first
\* run had built with synthesis calls, and has ended.
C3_Witness ==
    /\ runs = 2 /\ pc = "idle" /\ edits = <<>> /\ atStart.edits = <<>>
    /\ atStart.srcFile.kind = "ok"
    /\ MaxDayOf(atStart.srcFile) >= 2
    /\ \A d \in 1..MaxDayOf(atStart.srcFile) : HasAllRequired(atStart.dayDirs, d)
    /\ atStart.apiCalls > 0
    /\ RunDidNothing

\* C4: when a run has ended, whether it returned or was cut short by a
\* failure, every day has all of its required files or none of them.
C4_NoPartialDayAfterRun ==
    (pc \in {"idle", "off"} /\ RunUndisturbed)
    => \A d \in OutDays : Present(dayDirs, d) \in {{}, RequiredFiles}

\* The run started after exactly one required file of day D was deleted
\* from an otherwise complete day D, every other day being complete.
OneFileDeleted(D) ==
    /\ runs >= 2 /\ edits = <<>>
    /\ Len(atStart.edits) = 1
    /\ atStart.edits[1].kind = "delete_output"
    /\ atStart.edits[1].day = D
    /\ atStart.srcFile.kind = "ok"
    /\ D \in 1..MaxDayOf(atStart.srcFile)
    /\ atStart.dayDirs[D].dir
    /\ Present(atStart.dayDirs, D) = RequiredFiles \ {atStart.edits[1].file}
    /\ \A d \in 1..MaxDayOf(atStart.srcFile) :
          d # D => HasAllRequired(atStart.dayDirs, d)

CleanStart ==
    /\ RunUndisturbed
    /\ \A d \in OutDays : ~atStart.dayDirs[d].dir /\ Present(atStart.dayDirs, d) = {}
    /\ \A q \in CachePaths : ~Exists(atStart.ttsCache[q])

C7_EmptyEntryIsAMiss ==
    \A r \in cacheLog : r.before \in {"empty", "corrupt"} => r.synth

\* C8: in real mode the expected duration returned by the compiler equals
\* the duration of the track it assembled, in whole milliseconds.
C8_ExpectedEqualsAssembled ==
    lastGen.real => lastGen.expected = lastGen.assembled


\* days_to_process of the run: the days handed to process_day so far and
\* the days still ahead.
Planned == Range(processed) \cup Range(queue)

\* C12: a day D of 1..max_day is among the days a run processes exactly
\* when is_day_complete(D) was false when the run started; nothing else
\* decides it.
C12_ProcessedIffIncomplete ==
    (runs >= 1 /\ pc # "off")
    => \A D \in 1..MaxStudyDayOf(loaded) :
          D \in Planned <=> ~is_day_complete(atStart.dayDirs, D)


\* The build of day D was cut short: process_day(D) was entered and an
\* exception ended the run before it returned.
BuildCutShort(D) ==
    pc = "off" /\ queue # <<>> /\ Head(queue) = D /\ D \in Range(processed)

\* C13: when the build of day D stopped before its last step, D does not
\* count as done: is_day_complete(D) is false.
C13_CutShortBuildIsIncomplete ==
    \A D \in OutDays : BuildCutShort(D) => ~is_day_complete(dayDirs, D)


\* C18: the workout track is compiled from exactly the day's NEW entries
\* and holds no REVIEW entry; review_forward and review_reverse are compiled
\* from all the day's entries, NEW and REVIEW.
C18_TemplateSourceFilter ==
    lastGen.day # 0 =>
        LET full == generate_full_repetition_schedule(loaded,
                        MaxStudyDayOf(loaded))[lastGen.day]
        IN  IF lastGen.template = "workout"
            THEN /\ lastGen.items = SelectSeq(full, LAMBDA e : e.type = ScheduleType_NEW)
                 /\ \A n \in 1..Len(lastGen.items) :
                       lastGen.items[n].type # ScheduleType_REVIEW
            ELSE /\ lastGen.template \in {"review_forward", "review_reverse"}
                 /\ lastGen.items = full
                 /\ \A n \in 1..Len(full) :
                       full[n].type \in {ScheduleType_NEW, ScheduleType_REVIEW}

\* Witness of C18: a workout track compiled on a day that also has a review
\* due, so the filter leaves entries out.
C18_Witness ==
    /\ lastGen.day # 0
    /\ lastGen.template = "workout"
    /\ pc = "ver_workout"
    /\ lastGen.items # <<>>
    /\ \E n \in 1..Len(FullSchedule) : FullSchedule[n].type = ScheduleType_REVIEW


\* The steps of process_day in the order the code takes them; pc names the
\* step that comes next.
StepOrder ==
    <<"precache", "man_review", "man_workout", "gen_workout", "ver_workout",
      "gen_review_forward", "ver_review_forward", "gen_review_reverse",
      "ver_review_reverse">>

PosOf(step) == CHOOSE k \in 1..Len(StepOrder) : StepOrder[k] = step

\* The step has been taken in the build that is under way.
DoneInBuild(step) == PosOf(pc) > PosOf(step)

\* C20: within the build of one day every manifest is written before any
\* track is written, and every track is written before any validation runs.
C20_ManifestsTracksValidationInOrder ==
    pc \in Range(StepOrder) =>
        /\ (\E t \in Range(TemplateKeys) : DoneInBuild(GenPc[t]))
              => (DoneInBuild("man_review") /\ DoneInBuild("man_workout"))
        /\ (lastVerify.day = CurrentDay /\ \E t \in Range(TemplateKeys) : DoneInBuild(VerPc[t]))
              => \A t \in Range(TemplateKeys) :
                    DoneInBuild(GenPc[t]) /\ lastGen.template = "review_reverse"


\* The last validation of the build reported a duration mismatch for t: the
\* track exists and was measured, and its length is out of tolerance.
MismatchReported(t) == lastVerify.day # 0 /\ t \in lastVerify.mismatch

\* The build of the day of lastVerify has ended and nothing was edited since.
BuildEnded ==
    /\ lastVerify.day # 0
    /\ lastVerify.template = "review_reverse"
    /\ pc \in {"idle", "precache"}
    /\ edits = <<>>

\* A validation step that reports a mismatch goes on to the next step of
\* process_day and leaves every output file as it was.
MismatchStepGoesOn ==
    \A t \in Range(TemplateKeys) :
        (pc = VerPc[t] /\ lastVerify' # lastVerify /\ t \in lastVerify'.mismatch)
            => /\ dayDirs' = dayDirs
               /\ IF t = "review_reverse" THEN pc' \in {"idle", "precache"}
                  ELSE pc' = StepOrder[PosOf(VerPc[t]) + 1]

C23_DaysAscendingOneAtATime ==
    /\ \A i, j \in 1..Len(processed) : i < j => processed[i] < processed[j]
    /\ \A i \in 1..Len(processed) :
          i < Len(processed) => processed[i] \notin Range(queue)
    /\ (pc \in Range(StepOrder) /\ pc # "precache")
          => (processed # <<>> /\ processed[Len(processed)] = CurrentDay)
    /\ \A i \in 1..Len(queue) :
          \A k \in 1..Len(processed) :
             processed[k] <= queue[i] /\ (processed[k] = queue[i] => i = 1)

\* Witness of C23: a run has built day 1 and is writing the tracks of day 2.
C23_Witness ==
    /\ processed = <<1, 2>>
    /\ queue = <<2>>
    /\ pc = "gen_review_forward"
    /\ is_day_complete(dayDirs, 1)


\* C24: the cache is append-only across runs; an entry that is present
\* stays present (and stays the file it was), so the set of keys on disk
\* only grows.
C24_CacheAppendOnly ==
    [][\A q \in CachePaths : Exists(ttsCache[q]) => ttsCache'[q] = ttsCache[q]]_vars

\* Witness of C24: a later run has added entries to a cache that already
\* held some, and every entry it found is still there.
C24_Witness ==
    /\ runs = 2
    /\ \E q \in CachePaths : Exists(atStart.ttsCache[q])
    /\ \E q \in CachePaths : ~Exists(atStart.ttsCache[q]) /\ Exists(ttsCache[q])
    /\ \A q \in CachePaths : Exists(atStart.ttsCache[q]) => ttsCache[q] = atStart.ttsCache[q]


\* A synthesis call of the pre-caching of this build raised and left no
\* entry.
SynthesisFailedInBuild ==
    /\ pc \in Range(StepOrder)
    /\ pc # "precache"
    /\ \E r \in cacheLog : r.synth /\ r.after = "absent"

\* C26: a failed synthesis call is retried up to a fixed number of attempts,
\* and when every attempt has failed the build of the day stops: no manifest
\* and no track is written after it.
C26_SynthesisFailureStopsBuild ==
    SynthesisFailedInBuild => ~DoneInBuild("man_review")


\* The number of things the tokens before the k-th token of a template
\* append when every content token appends audio and a pause.
PartsBefore(template, k) ==
    2 * Cardinality({j \in 1..(k - 1) : SEGMENT_ACTIONS[template[j]] = "CONTENT"})
    + Cardinality({j \in 1..(k - 1) : SEGMENT_ACTIONS[template[j]] # "CONTENT"})

\* C29: for each entry in order and each token of the template in order the
\* track gets, for a content token, the cached audio of that field and then
\* the pause of that role, for SP the configured silence only; nothing else.
C29_TrackIsCachedAudioAndPauses ==
    (lastGen.day # 0 /\ lastGen.real /\ pc = VerPc[lastGen.template]) =>
        LET template == AUDIO_TEMPLATES[lastGen.template]
            track == final_audio(lastGen.template, lastGen.items, TRUE, ttsCache)
            per_item == PartsBefore(template, Len(template) + 1)
        IN  /\ Len(track) = Len(lastGen.items) * per_item
            /\ \A i \in 1..Len(lastGen.items) :
                  \A k \in 1..Len(template) :
                     LET at == (i - 1) * per_item + PartsBefore(template, k)
                         key == template[k]
                     IN  IF key = "SP"
                         THEN track[at + 1] = Silent(PAUSE_DURATIONS["SP"])
                         ELSE /\ track[at + 1].kind = "audio"
                              /\ track[at + 1].path =
                                    get_cache_path(lastGen.items[i][key],
                                                   get_segment_lang_code_full(key))
                              /\ track[at + 2] = Silent(PAUSE_DURATIONS[key])


\* The StudyDay values of the master data of the run.
StudyDays == {loaded[i].StudyDay : i \in 1..Len(loaded)}

\* The day is one of 1..M, M the largest StudyDay of the master data.
UpToLastStudyDay(d) == d >= 1 /\ \E sd \in StudyDays : d <= sd

\* C31: a run considers exactly the days 1..M, M the largest StudyDay of the
\* master data: each of them is built or was found complete, and no later
\* day is built, also when a review falls due on it.
C31_DaysUpToLastStudyDay ==
    runs >= 1 =>
        /\ \A d \in Planned : UpToLastStudyDay(d)
        /\ \A d \in OutDays :
              UpToLastStudyDay(d)
                  => (d \in Planned \/ (~isInitialRun /\ is_day_complete(atStart.dayDirs, d)))
        /\ \A d \in OutDays :
              (~UpToLastStudyDay(d) /\ edits = <<>>) => dayDirs[d] = atStart.dayDirs[d]

\* Witness of C31: a run over a master list with StudyDay 1 only has built
\* day 1 and returned; the review of that row due on day 2 has no output.
C31_Witness ==
    /\ runs = 1 /\ pc = "idle" /\ edits = <<>>
    /\ loaded # <<>> /\ StudyDays = {1}
    /\ IsDue(1, 2)
    /\ processed = <<1>>
    /\ is_day_complete(dayDirs, 1)
    /\ dayDirs[2] = NoDay


\* The cache keys with a file on disk.
PresentKeys(cache) == {q \in CachePaths : Exists(cache[q])}

\* C32: over any sequence of runs in which no call fails, synthesis is
\* invoked once for each (text, language) that has an entry and never
\* again, however many days, templates and repetitions use the segment.
C32_OneSynthesisPerKey ==
    faults = 0 => apiCalls = Cardinality(PresentKeys(ttsCache))

\* Witness of C32: a second run in real mode has rebuilt a day whose
\* segments were synthesized by the first, without a synthesis call.
C32_Witness ==
    /\ runs = 2 /\ faults = 0 /\ pc = "idle"
    /\ runMode.tts
    /\ processed # <<>>
    /\ apiCalls = atStart.apiCalls
    /\ apiCalls >= 4
    /\ \A q \in PresentKeys(ttsCache) : ttsCache[q].kind = "audio"


\* The manifest file names of a day directory.
ManifestNames == {REVIEW_MANIFEST_NAME, WORKOUT_MANIFEST_NAME}

\* The rows of file f carry the numbers 1, 2, ..., N in order.
Numbered(f) == \A i \in 1..Len(f.rows) : f.rows[i].sequence = i

\* The schedule handed to write_manifest_csv at the current step.
ScheduleWritten ==
    IF pc = "man_review" THEN FullSchedule ELSE WorkoutSchedule

\* The manifest the current step writes.
ManifestWritten ==
    IF pc = "man_review" THEN REVIEW_MANIFEST_NAME ELSE WORKOUT_MANIFEST_NAME

\* C35: every manifest written by write_manifest_csv numbers its rows
\* 1, 2, ..., N consecutively in schedule order, without gap or repeat, N
\* being the number of schedule entries passed in: a step that writes a
\* manifest leaves one row per entry of its schedule, row i holding entry i
\* under number i, and every manifest on disk is so numbered.
C35_ManifestRowsNumbered ==
    /\ [][(pc \in {"man_review", "man_workout"}
           /\ dayDirs'[CurrentDay].files[ManifestWritten].kind = "csv"
           /\ faults' = faults)
          => LET f == dayDirs'[CurrentDay].files[ManifestWritten]
             IN  /\ Len(f.rows) = Len(ScheduleWritten)
                 /\ \A i \in 1..Len(f.rows) :
                       /\ f.rows[i].sequence = i
                       /\ f.rows[i].item = ScheduleWritten[i]]_vars
    /\ [](\A d \in DOMAIN dayDirs : \A fn \in ManifestNames :
             dayDirs[d].files[fn].kind = "csv" => Numbered(dayDirs[d].files[fn]))

\* A review manifest of two rows, a review and a new entry, is on disk.
C35_Witness ==
    \E d \in DOMAIN dayDirs :
        LET f == dayDirs[d].files[REVIEW_MANIFEST_NAME]
        IN  /\ f.kind = "csv"
            /\ Len(f.rows) >= 2
            /\ f.rows[1].item.type = ScheduleType_REVIEW
            /\ f.rows[2].item.type = ScheduleType_NEW


\* C36: building day D creates or modifies files only inside the directory
\* of day D and inside the cache directory: a step of the build leaves the
\* directory of every other day and the master file as they were, a day the
\* run has not built is as the run found it, and a day that was complete
\* when a non-initial run started is not built by that run.
C36_BuildTouchesOwnDayOnly ==
    /\ [][(pc \in Range(StepOrder))
          => ((\A d \in OutDays : d # CurrentDay => dayDirs'[d] = dayDirs[d])
              /\ srcFile' = srcFile)]_vars
    /\ [](\A d \in OutDays :
             (runs >= 1 /\ edits = <<>> /\ d \notin Range(processed))
                 => dayDirs[d] = atStart.dayDirs[d])
    /\ [](\A d \in OutDays :
             (runs >= 1 /\ ~isInitialRun /\ is_day_complete(atStart.dayDirs, d))
                 => d \notin Range(processed) \cup Range(queue))

\* Witness of C36: a non-initial run found day 1 complete and day 2 not, has
\* rebuilt day 2 and returned with every file of day 1 as it found it.
C36_Witness ==
    /\ runs >= 2 /\ ~isInitialRun /\ pc = "idle" /\ edits = <<>>
    /\ is_day_complete(atStart.dayDirs, 1)
    /\ ~is_day_complete(atStart.dayDirs, 2)
    /\ processed = <<2>>
    /\ is_day_complete(dayDirs, 2)
    /\ dayDirs[1] = atStart.dayDirs[1]
    /\ ttsCache # atStart.ttsCache


\* The days main_workflow selected when the run started.
SelectedDays ==
    IF loaded = <<>> THEN <<>>
    ELSE DaysToProcess(isInitialRun, MaxStudyDayOf(loaded), atStart.dayDirs)

\* The days of the queue the run has not started to build.
DaysAhead ==
    IF pc = "precache" \/ queue = <<>> THEN queue ELSE Tail(queue)

\* The statements the run still has to execute: the rest of the day being
\* built and the whole of each day that waits.
StepsLeft ==
    IF pc \in Range(StepOrder)
    THEN Len(queue) * Len(StepOrder) - (PosOf(pc) - 1)
    ELSE 0

\* C38: every run of main_workflow terminates, and in it each day selected
\* for processing is built exactly once; when the master data cannot be
\* loaded or validated the run ends without building any day.  Termination
\* is stated on finite runs: each statement of a run that has not returned
\* either ends the run or lowers the number of statements left, which is
\* never negative.
C38_RunTerminatesEachDayOnce ==
    /\ [][(pc \in Range(StepOrder))
          => (pc' \in {"idle", "off"} \/ StepsLeft' < StepsLeft)]_vars
    /\ [](StepsLeft >= 0)
    /\ []((runs >= 1 /\ pc # "off") => processed \o DaysAhead = SelectedDays)
    /\ [](\A i, j \in 1..Len(processed) : processed[i] = processed[j] => i = j)
    /\ []((runs >= 1 /\ loaded = <<>>)
             => (pc = "idle" /\ processed = <<>>
                 /\ (edits = <<>> => dayDirs = atStart.dayDirs)))

\* Witness of C38: a run over a two-day master list has returned after
\* building day 1 and day 2, each once.
C38_Witness ==
    /\ pc = "idle" /\ runs >= 1 /\ edits = <<>>
    /\ SelectedDays = <<1, 2>>
    /\ processed = <<1, 2>>
    /\ queue = <<>>

=============================================================================
